---- MODULE Spec2Model ----
(***************************************************************************)
(* The semantic index of tiddlywiki-cli (lib/semantic.js): the vector      *)
(* store (entry_embeddings, embedding_metadata, sync_status), reindex()    *)
(* with its four phases, and the document source it reads through          *)
(* fetchFilter / fetchTiddler (apiFilter / apiGet of tw.js).               *)
(*                                                                         *)
(* Each action is one synchronous section of the JavaScript code: what     *)
(* runs between two awaits.  A section's store writes are a sequence of    *)
(* SQL statements (better-sqlite3 autocommits each one); the section       *)
(* applies all of them, and an interruption of the process applies a       *)
(* proper prefix of them.                                                  *)
(*                                                                         *)
(* Encodings.  Timestamps (tiddler `modified`, sync last_modified) are     *)
(* numbers in lexical order: 0 is the empty string / a missing field,      *)
(* MISSING_TIMESTAMP is the sentinel, larger numbers are real timestamps.  *)
(* Wall-clock time is counted in units of 12 hours.  A body text is the    *)
(* sequence of the pieces chunkText cuts it into: <<>> is the empty        *)
(* string.  The denormalised created/modified/tags columns of              *)
(* embedding_metadata are copies of the fetched tiddler and are left out.  *)
(***************************************************************************)
EXTENDS Integers, Sequences, FiniteSets, TLC

\* ---------------------------------------------------------------- bounds

\* Last instant of the wall clock (12-hour units).
MaxNow == 3
\* Number of edits made to the wiki.
MaxEdits == 1
\* Number of times the process is interrupted from outside.
MaxKills == 1
\* Largest number of chunks a body is cut into.
MaxChunks == 2
\* Largest query (queries are 0..MaxQuery).
MaxQuery == 2
\* Largest limit a search is called with.
MaxLimit == 3
\* The longest text given to chunkText, in characters.
MaxText == 6
\* The largest token budget given to chunkText.
MaxBudget == 3
\* The longest text given to createTwoFilesPatch, in characters.
MaxStr == 4
\* The most lines of a longer text given to createTwoFilesPatch.
MaxLines == 9

\* ------------------------------------------------------------- constants

\* const MISSING_TIMESTAMP = "00000000000000000": above "", below any date.
MISSING_TIMESTAMP == 1
\* 24 * 60 * 60 * 1000 ms, in 12-hour units.
RetryAfter == 2
\* const BATCH = 5
BATCH == 5
\* createTwoFilesPatch(..., context = 3)
Context == 3
\* 10_000_000, the largest m * n computeEdits fills its table for, scaled to
\* the sizes of the model's texts.
MaxCells == 64

\* The titles of the wiki, in the order of the filter's sort[title].  A title
\* is a sequence of tokens; "/" and ".tid" are the tokens the filter of
\* reindex looks for.
TitleSeq ==
    << <<"/", "p">>, <<"a">>, <<"b">>, <<"c">>, <<"d">>, <<"e">>, <<"f">>,
       <<"g", ".tid">>, <<"h", ".tid", "s">> >>

Titles == {TitleSeq[k] : k \in 1..Len(TitleSeq)}

\* The titles whose tiddlers come and go while the wiki is edited; the
\* others are listed in the wikis of the batch runs only.
EditTitles == {TitleSeq[2], TitleSeq[3]}

\* The offsets of the local time zone from UTC the process may run under
\* (12-hour units, east positive).
TzOffsets == {-1, 0, 1}

\* A text of n pieces; piece j of it is <<n, j>>.
TextOf(n) == [j \in 1..n |-> <<n, j>>]

Texts == {TextOf(n) : n \in 0..MaxChunks}

\* --------------------------------------------------------------- helpers

Range(s) == {s[k] : k \in 1..Len(s)}

Min(S) == CHOOSE x \in S : \A y \in S : x <= y

RECURSIVE SortedSeq(_)
\* The numbers of S in ascending order.
SortedSeq(S) == IF S = {} THEN <<>> ELSE <<Min(S)>> \o SortedSeq(S \ {Min(S)})

RECURSIVE Concat(_)
\* The concatenation of a sequence of sequences.
Concat(ss) == IF ss = <<>> THEN <<>> ELSE Head(ss) \o Concat(Tail(ss))

VARIABLES
    \* the vector store (durable)
    entry_embeddings,     \* vec0 table: set of [rowid, embedding]
    embedding_metadata,   \* set of [id, tiddler_title, chunk_id, chunk_text]
    sync_status,          \* title -> row, or NoRow
    \* the environment
    wiki,                 \* title -> [listed, modified, text]
    now,                  \* wall clock (UTC)
    tz,                   \* offset of the process's local time zone
    ollamaUrl,            \* opts.ollamaUrl: "url" | "consul" | "host"
    silent,               \* the remote sides that never answer
    \* the running call of reindex or search
    pc,                   \* idle | srv | a | health | list | index | done |
                          \* failed | exited | killed, and for search
                          \* q_srv | q_a | q_health | q_embed | q_done | q_failed
    force,                \* opts.force
    validTitles,          \* Set of the valid titles
    allSynced,            \* titles read from sync_status in phase 3
    toIndex,              \* sequence of [title, modified]
    batchStart,           \* i of the batch loop (1-based)
    slot,                 \* title -> none | fetch | embed | done
    full,                 \* title -> the fetched tiddler
    fault,                \* title -> how its processing went
    result,               \* { indexed, empty, errors, deleted }
    hits,                 \* the rows dbSearch gave the running search
    ret,                  \* what the last call returned
    \* history
    atOpen,               \* the store as the running call found it, kept
                          \* until the call is past its first writes
    repeat,               \* this run directly follows a completed run
    resumed,              \* this run directly follows an interrupted run
    edits, kills,         \* how often the wiki was edited, the process interrupted
    \* the calls of the functions that keep no state
    srcText, maxTokens,   \* the arguments text, maxTokens of chunkText
    outChunks,            \* what chunkText returned
    oldStr, newStr,       \* the texts given to createTwoFilesPatch
    patch,                \* what createTwoFilesPatch returned
    returned              \* which of the two has returned: none | chunkText |
                          \* createTwoFilesPatch

store == <<entry_embeddings, embedding_metadata, sync_status>>
env == <<wiki, now, tz, ollamaUrl, silent>>
run == <<pc, force, validTitles, allSynced, toIndex, batchStart, slot, full,
         fault, result, hits, ret, atOpen, repeat, resumed>>
lib == <<srcText, maxTokens, outChunks, oldStr, newStr, patch, returned>>
vars == <<entry_embeddings, embedding_metadata, sync_status, wiki, now, tz,
          ollamaUrl, silent, pc, force, validTitles, allSynced, toIndex,
          batchStart, slot, full, fault, result, hits, ret, atOpen, repeat,
          resumed, edits, kills, srcText, maxTokens, outChunks, oldStr,
          newStr, patch, returned>>

\* ------------------------------------------------------- the vector store

\* "No row for this title" in sync_status.
NoRow == [last_modified |-> 0, last_indexed |-> 0, total_chunks |-> 0,
          status |-> "none", error_message |-> "null"]

\* The three tables as one value d = [vec, meta, sync].
Db == [vec |-> entry_embeddings, meta |-> embedding_metadata, sync |-> sync_status]

\* The tables of a new database file.
NoDb == [vec |-> {}, meta |-> {}, sync |-> [t \in Titles |-> NoRow]]

\* openDb with the WHERE of the migration left out: every row gets the
\* sentinel.
openDb_NoWhere(d) ==
    [d EXCEPT !.sync = [t \in Titles |->
        IF @[t].status # "none"
        THEN [@[t] EXCEPT !.last_modified = MISSING_TIMESTAMP]
        ELSE @[t]]]

\* openDb: the schema is created if missing; then the migration
\* UPDATE sync_status SET last_modified = sentinel WHERE last_modified = ''.
openDb(d) ==
    [d EXCEPT !.sync = [t \in Titles |->
        IF @[t].status # "none" /\ @[t].last_modified = 0
        THEN [@[t] EXCEPT !.last_modified = MISSING_TIMESTAMP]
        ELSE @[t]]]

\* One SQL statement on the store; each is committed on its own.
ApplyOp(d, o) ==
    CASE o.op = "DelMeta" ->
           [d EXCEPT !.meta = {m \in @ : m.tiddler_title # o.title}]
      [] o.op = "DelVec" ->
           [d EXCEPT !.vec = {v \in @ : v.rowid # o.id}]
      [] o.op = "DelSync" ->
           [d EXCEPT !.sync[o.title] = NoRow]
      [] o.op = "InsVec" ->
           [d EXCEPT !.vec = @ \cup {[rowid |-> o.id, embedding |-> o.text]}]
      [] o.op = "InsMeta" ->
           [d EXCEPT !.meta = @ \cup {[id |-> o.id, tiddler_title |-> o.title,
                                       chunk_id |-> o.chunk_id,
                                       chunk_text |-> o.text]}]
      [] o.op = "PutSync" ->
           [d EXCEPT !.sync[o.title] = o.row]

RECURSIVE ApplyOps(_, _)
\* The statements of ops run in order.
ApplyOps(d, ops) ==
    IF ops = <<>> THEN d ELSE ApplyOps(ApplyOp(d, Head(ops)), Tail(ops))

\* The k-th rowid (k >= 1) the vec0 table hands out from d on: rowid NULL
\* takes an unused rowid; the model takes the smallest ones.
FreshRowid(d, k) ==
    LET used == {v.rowid : v \in d.vec}
        top  == Cardinality(used) + k
    IN  SortedSeq((1..top) \ used)[k]

\* dbInsertEmbedding writing chunk indices that start at 1.
dbInsertEmbedding_OneBased(rowid, title, chunkId, chunkText) ==
    << [op |-> "InsVec", id |-> rowid, text |-> chunkText],
       [op |-> "InsMeta", id |-> rowid, title |-> title,
        chunk_id |-> chunkId + 1, text |-> chunkText] >>

\* dbInsertEmbedding(db, title, chunkId, embedding, chunkText, meta): the
\* vector row first, then the metadata row under the vector's rowid.  The
\* embedding of a text is written as the text it embeds.
dbInsertEmbedding(rowid, title, chunkId, chunkText) ==
    << [op |-> "InsVec", id |-> rowid, text |-> chunkText],
       [op |-> "InsMeta", id |-> rowid, title |-> title, chunk_id |-> chunkId,
        text |-> chunkText] >>

\* dbDeleteTiddler with the deletion of the vector rows forgotten.
dbDeleteTiddler_KeepVectors(d, title) ==
    << [op |-> "DelMeta", title |-> title],
       [op |-> "DelSync", title |-> title] >>

\* dbDeleteTiddler with the sync row left in place.
dbDeleteTiddler_KeepSync(d, title) ==
    LET rows == SortedSeq({m.id : m \in {x \in d.meta : x.tiddler_title = title}})
    IN  << [op |-> "DelMeta", title |-> title] >>
        \o [k \in 1..Len(rows) |-> [op |-> "DelVec", id |-> rows[k]]]

\* dbDeleteTiddler(db, title): select the ids, delete the metadata rows,
\* delete the vector rows one by one, delete the sync row.
dbDeleteTiddler(d, title) ==
    LET rows == SortedSeq({m.id : m \in {x \in d.meta : x.tiddler_title = title}})
    IN  << [op |-> "DelMeta", title |-> title] >>
        \o [k \in 1..Len(rows) |-> [op |-> "DelVec", id |-> rows[k]]]
        \o << [op |-> "DelSync", title |-> title] >>

\* dbUpdateSync(db, title, lastModified, totalChunks, status, errorMsg):
\* INSERT OR REPLACE with last_indexed = datetime('now').
dbUpdateSync(title, lastModified, totalChunks, status, errorMsg, clock) ==
    << [op |-> "PutSync", title |-> title,
        row |-> [last_modified |-> lastModified, last_indexed |-> clock,
                 total_chunks |-> totalChunks, status |-> status,
                 error_message |-> errorMsg]] >>

\* dbGetSync(db, title)
dbGetSync(d, title) == d.sync[title]

\* dbStats(db): the numbers of vector rows and of sync rows.
dbStats(d) ==
    [embeddings |-> Cardinality(d.vec),
     indexed |-> Cardinality({t \in Titles : d.sync[t].status # "none"})]

\* The chunk rows (chunk_id, chunk_text) stored for a title.
ChunksOf(d, title) ==
    {<<m.chunk_id, m.chunk_text>> : m \in {x \in d.meta : x.tiddler_title = title}}

\* The rowids of the chunk rows of a title: its vector rows, by the join of
\* dbSearch (e.rowid = m.id).
IdsOf(d, title) == {m.id : m \in {x \in d.meta : x.tiddler_title = title}}

\* The distance of the vector of chunk text e from the vector of query q:
\* some number fixed by the two texts.
Distance(q, e) == (q + e[1] + q * e[2]) % 3

\* The sequences that list every element of S once.
Orderings(S) ==
    {f \in [1..Cardinality(S) -> S] : \A x \in S : \E k \in DOMAIN f : f[k] = x}

\* dbSearch(db, queryEmbedding, limit): the k nearest vector rows (ties are
\* cut anywhere), each joined to its metadata row, in any order (the query
\* has no ORDER BY).  The set of the lists it may return.
dbSearch(d, q, k) ==
    LET n == IF Cardinality(d.vec) < k THEN Cardinality(d.vec) ELSE k
        nearest == {S \in SUBSET d.vec :
                       /\ Cardinality(S) = n
                       /\ \A v \in S, w \in d.vec \ S :
                            Distance(q, v.embedding) <= Distance(q, w.embedding)}
        Joined(S) == {[tiddler_title |-> m.tiddler_title, chunk_id |-> m.chunk_id,
                       chunk_text |-> m.chunk_text,
                       distance |-> Distance(q, v.embedding)] :
                        <<v, m>> \in {x \in S \X d.meta : x[1].rowid = x[2].id}}
    IN  UNION {Orderings(Joined(S)) : S \in nearest}

RECURSIVE Seen(_, _)
\* The loop of search over results with the Map seen: a row enters under its
\* title, and replaces the title's row when its distance is smaller.
Seen(seen, results) ==
    IF results = <<>> THEN seen
    ELSE LET r == Head(results)
             at == {i \in 1..Len(seen) : seen[i].tiddler_title = r.tiddler_title}
         IN  IF at = {}
             THEN Seen(Append(seen, r), Tail(results))
             ELSE LET i == CHOOSE x \in at : TRUE
                  IN  IF r.distance < seen[i].distance
                      THEN Seen([seen EXCEPT ![i] = r], Tail(results))
                      ELSE Seen(seen, Tail(results))

\* The deduplication keeping the first row of each title.
Dedup_KeepFirst(results) ==
    LET first == {i \in 1..Len(results) :
                    \A j \in 1..(i - 1) :
                       results[j].tiddler_title # results[i].tiddler_title}
        order == SortedSeq(first)
    IN  [k \in 1..Len(order) |-> results[order[k]]]

\* [...seen.values()]
Dedup(results) == Seen(<<>>, results)

\* ---------------------------------------------------- the document source

\* A tiddler that is not there: fetchTiddler's null, or a title not listed.
NoTiddler == [title |-> <<>>, modified |-> 0, text |-> <<>>]

\* fetchFilter("[!is[system]sort[title]]", false): the listed tiddlers, sorted
\* by title, without their text.
fetchFilter(w) ==
    LET Listed(t) == w[t].listed
        ts == SelectSeq(TitleSeq, Listed)
    IN  [k \in 1..Len(ts) |-> [title |-> ts[k], modified |-> w[ts[k]].modified]]

\* What fetchTiddler(title) = apiGet resolves to when the wiki answers 200.
fetchTiddler(w, title) ==
    [title |-> title, modified |-> w[title].modified, text |-> w[title].text]

\* How a call of apiGet can end: the tiddler, null (404), a thrown error (the
\* network, the timeout), or die() on any other status, which exits the process.
FetchOutcomes == {"ok", "null", "throw", "http"}

\* ------------------------------------------------------------- reindex

\* The modified value written as it is, a missing one as ''.
OrMissing_Raw(modified) == modified

\* t.modified || MISSING_TIMESTAMP
OrMissing(modified) == IF modified = 0 THEN MISSING_TIMESTAMP ELSE modified

\* !t.title.startsWith("/") && !t.title.includes(".tid")
IsValidTitle(title) ==
    /\ ~(Len(title) > 0 /\ title[1] = "/")
    /\ ~(\E k \in 1..Len(title) : title[k] = ".tid")

\* new Date(sync.last_indexed).getTime(): last_indexed is the UTC text of
\* datetime('now'), "YYYY-MM-DD HH:MM:SS"; Date reads a text without a zone
\* as local time, so the instant it yields is off by the zone's offset.
DateParse(lastIndexed, zone) == lastIndexed - zone

\* Phase 2 with an error retried at once, whatever time has passed.
NeedsIndex_RetryAtOnce(d, t, f, clock, zone) ==
    LET sync == dbGetSync(d, t.title)
        mod  == OrMissing(t.modified)
    IN  \/ f
        \/ sync.status = "none"
        \/ sync.last_modified # mod
        \/ sync.status = "error"

\* Phase 2 comparing last_modified with the listed modified as it is, a
\* missing one not read as the sentinel.
NeedsIndex_NoSentinel(d, t, f, clock, zone) ==
    LET sync == dbGetSync(d, t.title)
    IN  \/ f
        \/ sync.status = "none"
        \/ sync.last_modified # t.modified
        \/ /\ sync.status = "error"
           /\ clock - DateParse(sync.last_indexed, zone) > RetryAfter

\* Phase 2: whether listed tiddler t = [title, modified] needs indexing.
NeedsIndex(d, t, f, clock, zone) ==
    LET sync == dbGetSync(d, t.title)
        mod  == OrMissing(t.modified)
    IN  \/ f
        \/ sync.status = "none"
        \/ sync.last_modified # mod
        \/ /\ sync.status = "error"
           /\ clock - DateParse(sync.last_indexed, zone) > RetryAfter

\* SELECT tiddler_title FROM sync_status
SyncedTitles(d) ==
    LET HasRow(t) == d.sync[t].status # "none"
    IN  SelectSeq(TitleSeq, HasRow)

\* PurgeList with the first title to purge left out.
PurgeList_SkipsFirst(d, valid) ==
    LET Gone(t) == t \notin valid
        purge == SelectSeq(SyncedTitles(d), Gone)
    IN  IF purge = <<>> THEN <<>> ELSE Tail(purge)

\* Phase 3: the titles to purge, those with a sync row that are not valid.
PurgeList(d, valid) ==
    LET Gone(t) == t \notin valid
    IN  SelectSeq(SyncedTitles(d), Gone)

\* Phase 3: the statements of the purge.
ReconcileOps(d, valid) ==
    LET purge == PurgeList(d, valid)
    IN  Concat([k \in 1..Len(purge) |-> dbDeleteTiddler(d, purge[k])])

\* The listed entry (meta) of a title of toIndex.
MetaOf(title) ==
    LET k == CHOOSE j \in 1..Len(toIndex) : toIndex[j].title = title
    IN  toIndex[k]

\* The batch cut one entry too wide.
BatchTitles_Wide(ti, i) ==
    {ti[k].title : k \in {j \in 1..Len(ti) : j >= i /\ j <= i + BATCH}}

\* toIndex.slice(i, i + BATCH): the titles of the batch that starts at i.
BatchTitles(ti, i) ==
    {ti[k].title : k \in {j \in 1..Len(ti) : j >= i /\ j < i + BATCH}}

\* chunkText(full.text): the pieces of the body.
BodyChunks(text) == text

\* The section after fetchTiddler with the delete aimed at the first entry of
\* toIndex instead of the entry that is processed.
FetchOps_DeleteHead(d, meta, out, w, clock) ==
    LET tiddler == fetchTiddler(w, meta.title)
    IN  IF out = "throw"
        THEN dbUpdateSync(meta.title, OrMissing(meta.modified), 0, "error",
                          "fetch", clock)
        ELSE IF out = "null" \/ tiddler.text = <<>>
        THEN dbUpdateSync(meta.title, OrMissing(meta.modified), 0, "empty",
                          "null", clock)
        ELSE dbDeleteTiddler(d, toIndex[1].title)

\* The section after fetchTiddler with "delete old embeddings first" left out.
FetchOps_KeepOld(d, meta, out, w, clock) ==
    LET tiddler == fetchTiddler(w, meta.title)
    IN  IF out = "throw"
        THEN dbUpdateSync(meta.title, OrMissing(meta.modified), 0, "error",
                          "fetch", clock)
        ELSE IF out = "null" \/ tiddler.text = <<>>
        THEN dbUpdateSync(meta.title, OrMissing(meta.modified), 0, "empty",
                          "null", clock)
        ELSE <<>>

\* The section after fetchTiddler with the old index data deleted before the
\* outcome of the fetch is looked at.
FetchOps_DeleteFirst(d, meta, out, w, clock) ==
    LET tiddler == fetchTiddler(w, meta.title)
    IN  dbDeleteTiddler(d, meta.title)
        \o (IF out = "throw"
            THEN dbUpdateSync(meta.title, OrMissing(meta.modified), 0, "error",
                              "fetch", clock)
            ELSE IF out = "null" \/ tiddler.text = <<>>
            THEN dbUpdateSync(meta.title, OrMissing(meta.modified), 0, "empty",
                              "null", clock)
            ELSE <<>>)

\* The statements of the section that runs when fetchTiddler has ended for
\* meta: the empty status, or the deletion of the old index data, or the
\* error status of the catch block.
FetchOps(d, meta, out, w, clock) ==
    LET tiddler == fetchTiddler(w, meta.title)
    IN  IF out = "throw"
        THEN dbUpdateSync(meta.title, OrMissing(meta.modified), 0, "error",
                          "fetch", clock)
        ELSE IF out = "null" \/ tiddler.text = <<>>
        THEN dbUpdateSync(meta.title, OrMissing(meta.modified), 0, "empty",
                          "null", clock)
        ELSE dbDeleteTiddler(d, meta.title)

\* EmbedOps with the failing insert throwing after its vector row is written.
EmbedOps_ThrowsAfterVector(d, meta, tiddler, good, clock) ==
    LET chunks == BodyChunks(tiddler.text)
        n == Len(chunks)
        Ins(j) == dbInsertEmbedding(FreshRowid(d, j), tiddler.title, j - 1,
                                    chunks[j])
    IN  IF good = -1
        THEN dbUpdateSync(meta.title, OrMissing(meta.modified), 0, "error",
                          "embed", clock)
        ELSE IF good < n
        THEN Concat([j \in 1..good |-> Ins(j)])
             \o <<Ins(good + 1)[1]>>
             \o dbUpdateSync(meta.title, OrMissing(meta.modified), 0, "error",
                             "store", clock)
        ELSE Concat([j \in 1..n |-> Ins(j)])
             \o dbUpdateSync(tiddler.title, OrMissing(tiddler.modified), n,
                             "indexed", "null", clock)

\* The statements of the section that runs when ollamaEmbed has ended for
\* meta.  good = -1: ollamaEmbed threw.  Otherwise the store takes the first
\* `good` embeddings and dbInsertEmbedding throws on the next one (a vector
\* that is missing or not of 768 dimensions).
EmbedOps(d, meta, tiddler, good, clock) ==
    LET chunks == BodyChunks(tiddler.text)
        n == Len(chunks)
        Ins(j) == dbInsertEmbedding(FreshRowid(d, j), tiddler.title, j - 1,
                                    chunks[j])
    IN  IF good = -1
        THEN dbUpdateSync(meta.title, OrMissing(meta.modified), 0, "error",
                          "embed", clock)
        ELSE IF good < n
        THEN Concat([j \in 1..good |-> Ins(j)])
             \o dbUpdateSync(meta.title, OrMissing(meta.modified), 0, "error",
                             "store", clock)
        ELSE Concat([j \in 1..n |-> Ins(j)])
             \o dbUpdateSync(tiddler.title, OrMissing(tiddler.modified), n,
                             "indexed", "null", clock)

\* What a call returns; kind is none | summary | status | results | error |
\* exit; rows is the list search returns.
Ret(kind, res, d) ==
    [kind |-> kind, newly_indexed |-> res.indexed, empty |-> res.empty,
     errors |-> res.errors, deleted |-> res.deleted,
     total_indexed |-> dbStats(d).indexed,
     total_embeddings |-> dbStats(d).embeddings,
     rows |-> <<>>]

NoResult == [indexed |-> 0, empty |-> 0, errors |-> 0, deleted |-> 0]

NoRet == [kind |-> "none", newly_indexed |-> 0, empty |-> 0, errors |-> 0,
          deleted |-> 0, total_indexed |-> 0, total_embeddings |-> 0,
          rows |-> <<>>]

\* No call is running.
AtRest == pc \in {"idle", "done", "failed", "exited", "killed", "q_done", "q_failed"}

\* The memory of a call that has not got to phase 1 yet, or is over.
ClearRun ==
    /\ validTitles' = {}
    /\ allSynced' = <<>>
    /\ toIndex' = <<>>
    /\ batchStart' = 1
    /\ slot' = [t \in Titles |-> "none"]
    /\ full' = [t \in Titles |-> NoTiddler]
    /\ fault' = [t \in Titles |-> "none"]
    /\ result' = NoResult
    /\ hits' = <<>>

\* The store after the statements of ops.
Write(ops) ==
    LET d == ApplyOps(Db, ops)
    IN  /\ entry_embeddings' = d.vec
        /\ embedding_metadata' = d.meta
        /\ sync_status' = d.sync

\* The process ends without returning: its memory is gone, the store stays.
ProcessEnds(how, kind) ==
    /\ pc' = how
    /\ ret' = [NoRet EXCEPT !.kind = kind]
    /\ atOpen' = NoDb
    /\ force' = FALSE
    /\ repeat' = FALSE
    /\ resumed' = FALSE
    /\ ClearRun

\* A title the wiki does not list.
Unlisted == [listed |-> FALSE, modified |-> 0, text |-> <<>>]

\* The tiddlers the first title may start as: none, or one with any text,
\* without a modified field or with the first real timestamp.
InitEntries ==
    {Unlisted} \cup {[listed |-> TRUE, modified |-> m, text |-> x] :
                        m \in {0, MISSING_TIMESTAMP + 1}, x \in Texts}

\* The tiddlers every other title may start as: none, or one with the
\* longest text.
OtherEntries ==
    {Unlisted, [listed |-> TRUE, modified |-> MISSING_TIMESTAMP + 1,
                text |-> TextOf(MaxChunks)]}

\* The wikis a behaviour may start from.
InitWikis ==
    {[t \in Titles |-> IF t = TitleSeq[2] THEN x
                       ELSE IF t = TitleSeq[3] THEN y ELSE Unlisted] :
        x \in InitEntries, y \in OtherEntries}

\* No call of chunkText or createTwoFilesPatch has been made.
NoLib ==
    /\ srcText = <<>>
    /\ maxTokens = 0
    /\ outChunks = <<>>
    /\ oldStr = <<>>
    /\ newStr = <<>>
    /\ patch = <<>>
    /\ returned = "none"

\* A fresh store and no call running.
Fresh ==
    /\ entry_embeddings = {}
    /\ embedding_metadata = {}
    /\ sync_status = [t \in Titles |-> NoRow]
    /\ now = 0
    /\ pc = "idle"
    /\ force = FALSE
    /\ validTitles = {}
    /\ allSynced = <<>>
    /\ toIndex = <<>>
    /\ batchStart = 1
    /\ slot = [t \in Titles |-> "none"]
    /\ full = [t \in Titles |-> NoTiddler]
    /\ fault = [t \in Titles |-> "none"]
    /\ result = NoResult
    /\ hits = <<>>
    /\ ret = NoRet
    /\ atOpen = NoDb
    /\ repeat = FALSE
    /\ resumed = FALSE
    /\ edits = 0
    /\ kills = 0

\* The embedding backend is given by its URL and every remote side answers.
Online ==
    /\ ollamaUrl = "url"
    /\ silent = {}

\* A fresh store, any wiki, the process in UTC.
Init ==
    /\ Fresh
    /\ Online
    /\ wiki \in InitWikis
    /\ tz = 0
    /\ NoLib

\* reindex({force, statusOnly: false}) is called: loadDeps, openDb, dbStats.
StartReindex(f) ==
    /\ AtRest
    /\ sync_status' = openDb(Db).sync
    /\ pc' = IF ollamaUrl = "consul" THEN "srv" ELSE "health"
    /\ force' = f
    /\ repeat' = (pc = "done" /\ ~force)
    /\ resumed' = (pc \in {"killed", "exited"})
    /\ ret' = NoRet
    /\ atOpen' = Db
    /\ ClearRun
    /\ UNCHANGED <<entry_embeddings, embedding_metadata, env, edits, kills, lib>>

\* reindex({statusOnly: true}): openDb, dbStats, return.
ReindexStatus ==
    /\ AtRest
    /\ sync_status' = openDb(Db).sync
    /\ pc' = "idle"
    /\ ret' = Ret("status", NoResult, openDb(Db))
    /\ ClearRun
    /\ UNCHANGED <<entry_embeddings, embedding_metadata, env, force, atOpen,
                   repeat, resumed, edits, kills, lib>>

\* ollamaHealth has ended (false when the probe times out): on to
\* fetchFilter, or "Ollama not reachable" rejects the call.
HealthReturn(ok) ==
    /\ pc = "health"
    /\ ok => "health" \notin silent
    /\ IF ok
       THEN /\ pc' = "list"
            /\ UNCHANGED <<force, validTitles, allSynced, toIndex, batchStart,
                           slot, full, fault, result, hits, ret, atOpen, repeat,
                           resumed>>
       ELSE /\ ProcessEnds("failed", "error")
    /\ UNCHANGED <<store, env, edits, kills, lib>>

\* A failed fetchFilter taken for an empty list: phase 3 purges every title.
ListFails_Purges ==
    /\ pc = "list"
    /\ Write(ReconcileOps(Db, {}))
    /\ ProcessEnds("failed", "error")
    /\ UNCHANGED <<env, edits, kills, lib>>

\* fetchFilter failed: apiFilter dies or throws, the call ends with an error.
ListFails ==
    /\ pc = "list"
    /\ ProcessEnds("failed", "error")
    /\ UNCHANGED <<store, env, edits, kills, lib>>

\* fetchFilter has returned the list: the filter, phase 2, phase 3, and the
\* start of the first batch (or the summary when nothing needs indexing).
ListReturn ==
    /\ pc = "list"
    /\ LET d == Db
           allTiddlers == fetchFilter(wiki)
           Valid(t) == IsValidTitle(t.title)
           validTiddlers == SelectSeq(allTiddlers, Valid)
           valid == {validTiddlers[k].title : k \in 1..Len(validTiddlers)}
           Needs(t) == NeedsIndex(d, t, force, now, tz)
           ti == SelectSeq(validTiddlers, Needs)
           ops == ReconcileOps(d, valid)
           res == [NoResult EXCEPT !.deleted = Len(PurgeList(d, valid))]
       IN  /\ Write(ops)
           /\ atOpen' = NoDb
           /\ validTitles' = valid
           /\ allSynced' = SyncedTitles(d)
           /\ toIndex' = ti
           /\ batchStart' = 1
           /\ result' = res
           /\ slot' = [t \in Titles |->
                         IF t \in BatchTitles(ti, 1) THEN "fetch" ELSE "none"]
           /\ IF ti = <<>>
              THEN /\ pc' = "done"
                   /\ ret' = Ret("summary", res, ApplyOps(d, ops))
              ELSE /\ pc' = "index"
                   /\ ret' = ret
    /\ UNCHANGED <<env, force, full, fault, hits, repeat, resumed, edits, kills, lib>>

\* fetchTiddler(meta.title) has ended for a member of the running batch.
FetchReturn(title, out) ==
    /\ pc = "index"
    /\ slot[title] = "fetch"
    /\ out \in {"ok", "null", "throw"}
    /\ LET meta == MetaOf(title)
           tiddler == fetchTiddler(wiki, title)
           isEmpty == out = "null" \/ (out = "ok" /\ tiddler.text = <<>>)
       IN  /\ Write(FetchOps(Db, meta, out, wiki, now))
           /\ full' = [full EXCEPT ![title] =
                         IF out = "ok" THEN tiddler ELSE NoTiddler]
           /\ fault' = [fault EXCEPT ![title] =
                         IF out = "ok" THEN "none"
                         ELSE IF out = "null" THEN "null" ELSE "fetch"]
           /\ slot' = [slot EXCEPT ![title] =
                         IF out = "ok" /\ ~isEmpty THEN "embed" ELSE "done"]
           /\ result' = [result EXCEPT
                           !.empty = IF isEmpty THEN @ + 1 ELSE @,
                           !.errors = IF out = "throw" THEN @ + 1 ELSE @]
    /\ UNCHANGED <<env, pc, force, validTitles, allSynced, toIndex, batchStart,
                   hits, ret, atOpen, repeat, resumed, edits, kills, lib>>

\* apiGet got a status other than 200 and 404: die() exits the process.
FetchDies(title) ==
    /\ pc = "index"
    /\ slot[title] = "fetch"
    /\ ProcessEnds("exited", "exit")
    /\ UNCHANGED <<store, env, edits, kills, lib>>

\* The section after ollamaEmbed with result.indexed++ done before the
\* chunks are stored.
EmbedReturn_CountsFirst(title, good) ==
    /\ pc = "index"
    /\ slot[title] = "embed"
    /\ good \in -1..Len(BodyChunks(full[title].text))
    /\ good >= 0 => "embed" \notin silent
    /\ LET n == Len(BodyChunks(full[title].text))
       IN  /\ Write(EmbedOps(Db, MetaOf(title), full[title], good, now))
           /\ fault' = [fault EXCEPT ![title] =
                          IF good = -1 THEN "embed"
                          ELSE IF good < n THEN "store" ELSE "none"]
           /\ result' = [result EXCEPT
                           !.indexed = IF good >= 0 THEN @ + 1 ELSE @,
                           !.errors = IF good < n THEN @ + 1 ELSE @]
    /\ slot' = [slot EXCEPT ![title] = "done"]
    /\ UNCHANGED <<env, pc, force, validTitles, allSynced, toIndex, batchStart,
                   full, hits, ret, atOpen, repeat, resumed, edits, kills, lib>>

\* ollamaEmbed has ended for a member of the running batch: the chunks are
\* stored and the status set, or the catch block records the error.
EmbedReturn(title, good) ==
    /\ pc = "index"
    /\ slot[title] = "embed"
    /\ good \in -1..Len(BodyChunks(full[title].text))
    /\ good >= 0 => "embed" \notin silent
    /\ LET n == Len(BodyChunks(full[title].text))
       IN  /\ Write(EmbedOps(Db, MetaOf(title), full[title], good, now))
           /\ fault' = [fault EXCEPT ![title] =
                          IF good = -1 THEN "embed"
                          ELSE IF good < n THEN "store" ELSE "none"]
           /\ result' = [result EXCEPT
                           !.indexed = IF good = n THEN @ + 1 ELSE @,
                           !.errors = IF good < n THEN @ + 1 ELSE @]
    /\ slot' = [slot EXCEPT ![title] = "done"]
    /\ UNCHANGED <<env, pc, force, validTitles, allSynced, toIndex, batchStart,
                   full, hits, ret, atOpen, repeat, resumed, edits, kills, lib>>

\* Promise.all of the batch has resolved: the next batch starts, or the
\* call returns its summary.
BatchDone ==
    /\ pc = "index"
    /\ \A t \in BatchTitles(toIndex, batchStart) : slot[t] = "done"
    /\ IF batchStart + BATCH <= Len(toIndex)
       THEN /\ batchStart' = batchStart + BATCH
            /\ slot' = [t \in Titles |->
                          IF t \in BatchTitles(toIndex, batchStart + BATCH)
                          THEN "fetch" ELSE slot[t]]
            /\ UNCHANGED <<pc, ret>>
       ELSE /\ pc' = "done"
            /\ ret' = Ret("summary", result, Db)
            /\ UNCHANGED <<batchStart, slot>>
    /\ UNCHANGED <<store, env, force, validTitles, allSynced, toIndex, full,
                   fault, result, hits, atOpen, repeat, resumed, edits, kills, lib>>

\* The process is interrupted from outside while it waits on an await.
KillAwait ==
    /\ pc \in {"health", "list", "index"}
    /\ kills < MaxKills
    /\ kills' = kills + 1
    /\ ProcessEnds("killed", "none")
    /\ UNCHANGED <<store, env, edits, lib>>

\* The process is interrupted inside a section, after k of its statements.
KillAfter(ops) ==
    /\ kills < MaxKills
    /\ kills' = kills + 1
    /\ \E k \in 1..(Len(ops) - 1) : Write(SubSeq(ops, 1, k))
    /\ ProcessEnds("killed", "none")
    /\ UNCHANGED <<env, edits, lib>>

\* ... inside phase 3.
KillInReconcile ==
    /\ pc = "list"
    /\ LET allTiddlers == fetchFilter(wiki)
           valid == {allTiddlers[k].title : k \in
                       {j \in 1..Len(allTiddlers) : IsValidTitle(allTiddlers[j].title)}}
       IN  KillAfter(ReconcileOps(Db, valid))

\* ... inside the section that follows fetchTiddler.
KillInFetch(title, out) ==
    /\ pc = "index"
    /\ slot[title] = "fetch"
    /\ out \in {"ok", "null", "throw"}
    /\ KillAfter(FetchOps(Db, MetaOf(title), out, wiki, now))

\* ... inside the section that follows ollamaEmbed.
KillInEmbed(title, good) ==
    /\ pc = "index"
    /\ slot[title] = "embed"
    /\ good \in -1..Len(BodyChunks(full[title].text))
    /\ KillAfter(EmbedOps(Db, MetaOf(title), full[title], good, now))

\* Between two calls the state of the last call is forgotten.
BackToIdle ==
    /\ pc' = "idle"
    /\ ret' = NoRet
    /\ atOpen' = NoDb
    /\ force' = FALSE
    /\ repeat' = FALSE
    /\ resumed' = FALSE
    /\ ClearRun

\* A tiddler is saved in the wiki with a new text: its modified moves on.
PutTiddler(title, text) ==
    /\ AtRest
    /\ edits < MaxEdits
    /\ text \in Texts
    /\ ~(wiki[title].listed /\ wiki[title].text = text)
    /\ LET m == IF wiki[title].modified <= MISSING_TIMESTAMP
                THEN MISSING_TIMESTAMP + 1 ELSE wiki[title].modified + 1
       IN  wiki' = [wiki EXCEPT ![title] =
                        [listed |-> TRUE, modified |-> m, text |-> text]]
    /\ edits' = edits + 1
    /\ BackToIdle
    /\ UNCHANGED <<store, now, tz, ollamaUrl, silent, kills, lib>>

\* A tiddler is deleted from the wiki.
DeleteTiddler(title) ==
    /\ AtRest
    /\ edits < MaxEdits
    /\ wiki[title].listed
    /\ wiki' = [wiki EXCEPT ![title] = Unlisted]
    /\ edits' = edits + 1
    /\ BackToIdle
    /\ UNCHANGED <<store, now, tz, ollamaUrl, silent, kills, lib>>

\* Twelve hours pass.
Tick ==
    /\ AtRest
    /\ now < MaxNow
    /\ now' = now + 1
    /\ BackToIdle
    /\ UNCHANGED <<store, wiki, tz, ollamaUrl, silent, edits, kills, lib>>

\* dns.resolveSrv has answered within DNS_TIMEOUT: with records, or with
\* none or an error, which rejects the call.
SrvReturn(ok) ==
    /\ pc \in {"srv", "q_srv"}
    /\ "srv" \notin silent
    /\ IF ok
       THEN /\ pc' = IF pc = "srv" THEN "a" ELSE "q_a"
            /\ UNCHANGED <<force, validTitles, allSynced, toIndex, batchStart,
                           slot, full, fault, result, hits, ret, atOpen, repeat,
                           resumed>>
       ELSE ProcessEnds(IF pc = "srv" THEN "failed" ELSE "q_failed", "error")
    /\ UNCHANGED <<store, env, edits, kills, lib>>

\* The timer of the Promise.race fires first: "DNS SRV timeout".
SrvTimeout ==
    /\ pc \in {"srv", "q_srv"}
    /\ ProcessEnds(IF pc = "srv" THEN "failed" ELSE "q_failed", "error")
    /\ UNCHANGED <<store, env, edits, kills, lib>>

\* dns.resolve4(srv.name) has answered: its first address, or on an error the
\* host name, is the host of the base URL.
AReturn(ok) ==
    /\ pc \in {"a", "q_a"}
    /\ "a" \notin silent
    /\ pc' = IF pc = "a" THEN "health" ELSE "q_health"
    /\ UNCHANGED <<store, env, force, validTitles, allSynced, toIndex, batchStart,
                   slot, full, fault, result, hits, ret, atOpen, repeat, resumed,
                   edits, kills, lib>>

\* search({query, limit}) is called: loadDeps, then resolveOllamaUrl.
StartSearch ==
    /\ AtRest
    /\ pc' = IF ollamaUrl = "consul" THEN "q_srv" ELSE "q_health"
    /\ ret' = NoRet
    /\ atOpen' = Db
    /\ force' = FALSE
    /\ repeat' = FALSE
    /\ resumed' = FALSE
    /\ ClearRun
    /\ UNCHANGED <<store, env, edits, kills, lib>>

\* ollamaHealth has ended for search: openDb and on to the embed call, or
\* "Ollama not reachable" is thrown.
SearchHealthReturn(ok) ==
    /\ pc = "q_health"
    /\ ok => "health" \notin silent
    /\ IF ok
       THEN /\ sync_status' = openDb(Db).sync
            /\ pc' = "q_embed"
            /\ UNCHANGED <<force, validTitles, allSynced, toIndex, batchStart,
                           slot, full, fault, result, hits, ret, atOpen, repeat,
                           resumed>>
       ELSE /\ ProcessEnds("q_failed", "error")
            /\ UNCHANGED sync_status
    /\ UNCHANGED <<entry_embeddings, embedding_metadata, env, edits, kills, lib>>

\* The end of the embed call with an empty list returned when it failed.
SearchEmbedReturn_EmptyFallback(ok, q, k) ==
    /\ pc = "q_embed"
    /\ ok => "embed" \notin silent
    /\ hits' \in IF ok THEN dbSearch(Db, q, k) ELSE {<<>>}
    /\ ret' = [NoRet EXCEPT !.kind = "results", !.rows = Dedup(hits')]
    /\ pc' = "q_done"
    /\ atOpen' = NoDb
    /\ UNCHANGED <<force, validTitles, allSynced, toIndex, batchStart,
                   slot, full, fault, result, repeat, resumed>>
    /\ UNCHANGED <<store, env, edits, kills, lib>>

\* ollamaEmbed has ended for the query q of a search with limit k: it threw
\* (also on its timeout), or dbSearch runs and the deduplicated rows return.
SearchEmbedReturn(ok, q, k) ==
    /\ pc = "q_embed"
    /\ ok => "embed" \notin silent
    /\ IF ok
       THEN /\ hits' \in dbSearch(Db, q, k)
            /\ ret' = [NoRet EXCEPT !.kind = "results", !.rows = Dedup(hits')]
            /\ pc' = "q_done"
            /\ atOpen' = NoDb
            /\ UNCHANGED <<force, validTitles, allSynced, toIndex, batchStart,
                           slot, full, fault, result, repeat, resumed>>
       ELSE ProcessEnds("q_failed", "error")
    /\ UNCHANGED <<store, env, edits, kills, lib>>

\* The steps of the calls of search.
SearchStep ==
    \/ StartSearch
    \/ \E ok \in BOOLEAN : SearchHealthReturn(ok)
    \/ \E ok \in BOOLEAN, q \in 0..MaxQuery, k \in 1..MaxLimit :
          SearchEmbedReturn(ok, q, k)

\* The steps of resolveOllamaUrl for a Consul service name.
DnsStep ==
    \/ \E ok \in BOOLEAN : SrvReturn(ok)
    \/ SrvTimeout
    \/ \E ok \in BOOLEAN : AReturn(ok)

\* The steps of the calls of reindex.
RunStep ==
    \/ \E f \in BOOLEAN : StartReindex(f)
    \/ ReindexStatus
    \/ \E ok \in BOOLEAN : HealthReturn(ok)
    \/ ListFails
    \/ ListReturn
    \/ \E t \in Titles, out \in FetchOutcomes : FetchReturn(t, out)
    \/ \E t \in Titles : FetchDies(t)
    \/ \E t \in Titles, good \in -1..MaxChunks : EmbedReturn(t, good)
    \/ BatchDone

\* The wiki is edited between two calls.
Edit ==
    \/ \E t \in EditTitles, x \in Texts : PutTiddler(t, x)
    \/ \E t \in EditTitles : DeleteTiddler(t)

\* The process is interrupted.
Kill ==
    \/ KillAwait
    \/ KillInReconcile
    \/ \E t \in Titles, out \in FetchOutcomes : KillInFetch(t, out)
    \/ \E t \in Titles, good \in -1..MaxChunks : KillInEmbed(t, good)

\* Calls of reindex on a wiki that is edited between them.
Next == RunStep \/ Edit

Spec == Init /\ [][Next]_vars

\* Calls of reindex on a wiki of one tiddler that stays as it is, while time
\* passes, under any time zone.
InitClock ==
    /\ Fresh
    /\ Online
    /\ wiki \in {w \in InitWikis : ~w[TitleSeq[3]].listed}
    /\ tz \in TzOffsets
    /\ NoLib

NextClock == RunStep \/ Tick

SpecClock == InitClock /\ [][NextClock]_vars

\* Calls of reindex that may be interrupted, on a wiki whose tiddlers all
\* have a text and a modified field.
InitKill ==
    /\ Fresh
    /\ Online
    /\ wiki \in {w \in InitWikis : \A t \in Titles :
                    w[t].listed => w[t].modified # 0 /\ w[t].text # <<>>}
    /\ tz = 0
    /\ NoLib

NextKill == RunStep \/ (\E t \in EditTitles : DeleteTiddler(t)) \/ Kill

SpecKill == InitKill /\ [][NextKill]_vars

\* A wiki of three tiddlers: a body of one chunk, an empty body, a body of
\* two chunks.
ScenarioWiki ==
    [t \in Titles |->
        IF t = TitleSeq[2]
        THEN [listed |-> TRUE, modified |-> MISSING_TIMESTAMP + 1, text |-> TextOf(1)]
        ELSE IF t = TitleSeq[3]
        THEN [listed |-> TRUE, modified |-> MISSING_TIMESTAMP + 1, text |-> <<>>]
        ELSE IF t = TitleSeq[4]
        THEN [listed |-> TRUE, modified |-> MISSING_TIMESTAMP + 1, text |-> TextOf(2)]
        ELSE Unlisted]

\* The same wiki with every other plain title listed too, each with a body of one
\* chunk: more tiddlers than one batch takes.
BatchWiki ==
    [t \in Titles |->
        IF ScenarioWiki[t].listed THEN ScenarioWiki[t]
        ELSE IF Len(t) = 1
        THEN [listed |-> TRUE, modified |-> MISSING_TIMESTAMP + 1, text |-> TextOf(1)]
        ELSE Unlisted]

\* Runs with force=false over these wikis, from a fresh store, with fetches
\* and embed calls that succeed or fail, and a tiddler deleted between runs.
InitBatch ==
    /\ Fresh
    /\ Online
    /\ wiki \in {ScenarioWiki, BatchWiki}
    /\ tz = 0
    /\ NoLib

NextBatch ==
    \/ StartReindex(FALSE)
    \/ HealthReturn(TRUE)
    \/ ListReturn
    \/ \E t \in Titles, out \in FetchOutcomes : FetchReturn(t, out)
    \/ \E t \in Titles, good \in -1..MaxChunks : EmbedReturn(t, good)
    \/ BatchDone
    \/ \E t \in EditTitles : DeleteTiddler(t)

SpecBatch == InitBatch /\ [][NextBatch]_vars

\* A store written by an earlier version of the program: title a indexed
\* with the n chunks of a text under last_modified = '', for a tiddler
\* without a modified field.
LegacyStore(n) ==
    /\ entry_embeddings = {[rowid |-> j, embedding |-> TextOf(n)[j]] : j \in 1..n}
    /\ embedding_metadata =
         {[id |-> j, tiddler_title |-> TitleSeq[2], chunk_id |-> j - 1,
           chunk_text |-> TextOf(n)[j]] : j \in 1..n}
    /\ sync_status = [t \in Titles |->
         IF t = TitleSeq[2]
         THEN [last_modified |-> 0, last_indexed |-> 0, total_chunks |-> n,
               status |-> "indexed", error_message |-> "null"]
         ELSE NoRow]

\* No call is running and none has run.
NoCall ==
    /\ now = 0
    /\ pc = "idle"
    /\ force = FALSE
    /\ validTitles = {}
    /\ allSynced = <<>>
    /\ toIndex = <<>>
    /\ batchStart = 1
    /\ slot = [t \in Titles |-> "none"]
    /\ full = [t \in Titles |-> NoTiddler]
    /\ fault = [t \in Titles |-> "none"]
    /\ result = NoResult
    /\ hits = <<>>
    /\ ret = NoRet
    /\ atOpen = NoDb
    /\ repeat = FALSE
    /\ resumed = FALSE
    /\ edits = 0
    /\ kills = 0

\* Calls of reindex and of search on a wiki that stays as it is, from a
\* fresh store or from a store of an earlier version, with an embedding
\* backend that answers, or never answers its probe, or never an embed call.
InitSearch ==
    /\ \/ Fresh
       \/ NoCall /\ \E n \in 1..MaxChunks : LegacyStore(n)
    /\ ollamaUrl = "url"
    /\ silent \in {{}, {"health"}, {"embed"}}
    /\ wiki \in {w \in InitWikis : w[TitleSeq[2]].modified = 0}
    /\ tz = 0
    /\ NoLib

NextSearch == RunStep \/ SearchStep

SpecSearch == InitSearch /\ [][NextSearch]_vars

\* A wiki of two tiddlers: a body of one chunk and an empty body.
NetWiki ==
    [t \in Titles |->
        IF t \in EditTitles THEN ScenarioWiki[t] ELSE Unlisted]

\* Calls of reindex and search against a backend given by URL, by Consul
\* service name or by host name, where any of the remote sides may never
\* answer.
InitNet ==
    /\ Fresh
    /\ ollamaUrl \in {"url", "consul", "host"}
    /\ silent \in SUBSET {"srv", "a", "health", "embed"}
    /\ wiki = NetWiki
    /\ tz = 0
    /\ NoLib

NextNet == RunStep \/ SearchStep \/ DnsStep

\* The continuations of the awaits of a running call: the answer of the
\* remote side, or the timer of the call firing.
Continue ==
    \/ DnsStep
    \/ \E ok \in BOOLEAN : HealthReturn(ok)
    \/ ListFails
    \/ ListReturn
    \/ \E t \in Titles, out \in FetchOutcomes : FetchReturn(t, out)
    \/ \E t \in Titles : FetchDies(t)
    \/ \E t \in Titles, good \in -1..MaxChunks : EmbedReturn(t, good)
    \/ BatchDone
    \/ \E ok \in BOOLEAN : SearchHealthReturn(ok)
    \/ \E ok \in BOOLEAN, q \in 0..MaxQuery, k \in 1..MaxLimit :
          SearchEmbedReturn(ok, q, k)

\* The event loop runs a continuation that stays ready.
SpecNet == InitNet /\ [][NextNet]_vars /\ WF_vars(Continue)

\* The titles the filter of reindex is about: a path, a plain title, a title
\* that ends in ".tid", and a title that holds ".tid" before its end.
FilterTitles == {TitleSeq[1], TitleSeq[2], TitleSeq[8], TitleSeq[9]}

\* The wikis that list some of these titles, each with a body of one chunk.
FilterWikis ==
    {[t \in Titles |->
        IF t \in S
        THEN [listed |-> TRUE, modified |-> MISSING_TIMESTAMP + 1, text |-> TextOf(1)]
        ELSE Unlisted] : S \in SUBSET FilterTitles}

\* Calls of reindex over these wikis, from a fresh store.
InitFilter ==
    /\ Fresh
    /\ Online
    /\ wiki \in FilterWikis
    /\ tz = 0
    /\ NoLib

NextFilter == RunStep

SpecFilter == InitFilter /\ [][NextFilter]_vars

\* The wikis of two tiddlers that both have a body.
IndexedWikis ==
    {w \in InitWikis : \A t \in EditTitles : w[t].listed /\ w[t].text # <<>>}

\* The store that a run of reindex leaves which indexed every tiddler of w,
\* one after the other: chunk rows, vector rows and the row status=indexed.
IndexedStore(w) ==
    LET Index(d, t) ==
            ApplyOps(d, EmbedOps(d, [title |-> t, modified |-> w[t].modified],
                                 fetchTiddler(w, t), Len(BodyChunks(w[t].text)), 0))
    IN  Index(Index(NoDb, TitleSeq[2]), TitleSeq[3])

\* Calls of reindex on a wiki whose tiddlers an earlier run has indexed.
InitIndexed ==
    /\ NoCall
    /\ Online
    /\ wiki \in IndexedWikis
    /\ entry_embeddings = IndexedStore(wiki).vec
    /\ embedding_metadata = IndexedStore(wiki).meta
    /\ sync_status = IndexedStore(wiki).sync
    /\ tz = 0
    /\ NoLib

NextIndexed == RunStep

SpecIndexed == InitIndexed /\ [][NextIndexed]_vars

\* ---------------------------------------------------------- text chunking

\* A text is a sequence of characters.  The characters of the texts given to
\* chunkText: two letters, a sentence terminator, a space and a newline.
Letters == {"a", "b"}
Chars == Letters \cup {".", " ", "\n"}

\* [.!?]
Terminators == {".", "!", "?"}

\* \s
Whitespace == {" ", "\n"}

\* The texts of at most n characters.
TextsUpTo(n) == UNION {[1..k -> Chars] : k \in 0..n}

\* encode(text): the tokens of a text.  A space is taken into the token of
\* the word that follows it; every other character is a token of its own.
encode(s) ==
    LET NotSpace(c) == c # " "
    IN  SelectSeq(s, NotSpace)

\* How many characters of the set C follow one another in s from position i.
RunLen(s, i, C) ==
    LET stop == Min({j \in i..(Len(s) + 1) : j > Len(s) \/ s[j] \notin C})
    IN  stop - i

\* Where /\n\n+/ matches in s, and how long: at the first of two or more
\* newlines, the whole run of them.
ParagraphBreaks(s) ==
    [i \in 1..Len(s) |->
        IF s[i] = "\n" /\ (i = 1 \/ s[i - 1] # "\n") /\ RunLen(s, i, {"\n"}) >= 2
        THEN RunLen(s, i, {"\n"}) ELSE 0]

\* Where /[.!?]+\s+/ matches in s, and how long: at the first of a run of
\* terminators that whitespace follows, through the whole of that whitespace.
SentenceBreaks(s) ==
    [i \in 1..Len(s) |->
        IF s[i] \in Terminators /\ (i = 1 \/ s[i - 1] \notin Terminators)
        THEN LET t == RunLen(s, i, Terminators)
                 w == RunLen(s, i + t, Whitespace)
             IN  IF w > 0 THEN t + w ELSE 0
        ELSE 0]

RECURSIVE Pieces(_, _, _, _)
\* String.prototype.split: the pieces of s between the matches, the piece
\* running from position start being cut at the first match found from i on.
Pieces(s, breaks, i, start) ==
    IF i > Len(s) THEN <<SubSeq(s, start, Len(s))>>
    ELSE IF breaks[i] > 0
    THEN <<SubSeq(s, start, i - 1)>>
         \o Pieces(s, breaks, i + breaks[i], i + breaks[i])
    ELSE Pieces(s, breaks, i + 1, start)

\* s.split(re), re given by its matches.
Split(s, breaks) == Pieces(s, breaks, 1, 1)

\* s.trim()
Trim(s) ==
    LET inner == {i \in 1..Len(s) : s[i] \notin Whitespace}
    IN  IF inner = {} THEN <<>>
        ELSE SubSeq(s, Min(inner), CHOOSE i \in inner : \A j \in inner : j <= i)

\* `${a}${sep}${b}`
Join(a, sep, b) == a \o sep \o b

RECURSIVE SentenceLoop(_, _, _, _)
\* The loop over the sentences of an oversized paragraph, with the chunks
\* pushed so far and sentChunk.
SentenceLoop(sentences, chunkList, sentChunk, budget) ==
    IF sentences = <<>> THEN [chunks |-> chunkList, sentChunk |-> sentChunk]
    ELSE LET s == Head(sentences)
             fullS == IF s # <<>> /\ s[Len(s)] \in Terminators
                      THEN s ELSE s \o <<".">>
             test2 == IF sentChunk # <<>> THEN Join(sentChunk, <<" ">>, fullS)
                      ELSE fullS
         IN  IF Len(encode(test2)) > budget /\ sentChunk # <<>>
             THEN SentenceLoop(Tail(sentences), Append(chunkList, Trim(sentChunk)),
                               fullS, budget)
             ELSE SentenceLoop(Tail(sentences), chunkList, test2, budget)

RECURSIVE ParagraphLoop(_, _, _, _)
\* The loop over the paragraphs, with the chunks pushed so far and current.
ParagraphLoop(paragraphs, chunkList, current, budget) ==
    IF paragraphs = <<>> THEN [chunks |-> chunkList, current |-> current]
    ELSE LET para == Head(paragraphs)
             test == IF current # <<>> THEN Join(current, <<"\n", "\n">>, para)
                     ELSE para
             flushed == IF current # <<>> THEN Append(chunkList, Trim(current))
                        ELSE chunkList
             sl == SentenceLoop(Split(para, SentenceBreaks(para)), flushed,
                                <<>>, budget)
         IN  IF Len(encode(test)) > budget /\ current # <<>>
             THEN ParagraphLoop(Tail(paragraphs),
                                Append(chunkList, Trim(current)), para, budget)
             ELSE IF Len(encode(para)) > budget
             THEN ParagraphLoop(Tail(paragraphs), sl.chunks, sl.sentChunk, budget)
             ELSE ParagraphLoop(Tail(paragraphs), chunkList, test, budget)

\* chunkText without the early return for a text within the budget.
chunkText_NoShortcut(s, budget) ==
    LET r == ParagraphLoop(Split(s, ParagraphBreaks(s)), <<>>, <<>>, budget)
        all == IF r.current # <<>> THEN Append(r.chunks, Trim(r.current))
               ELSE r.chunks
        NotEmpty(c) == Len(c) > 0
    IN  SelectSeq(all, NotEmpty)

\* chunkText(text, maxTokens)
chunkText(s, budget) ==
    IF Len(encode(s)) <= budget THEN <<s>>
    ELSE LET r == ParagraphLoop(Split(s, ParagraphBreaks(s)), <<>>, <<>>, budget)
             all == IF r.current # <<>> THEN Append(r.chunks, Trim(r.current))
                    ELSE r.chunks
             NotEmpty(c) == Len(c) > 0
         IN  SelectSeq(all, NotEmpty)

\* Every variable of the calls of reindex and search is at rest, the store
\* fresh and the wiki empty.
NoProgram ==
    /\ Fresh
    /\ Online
    /\ wiki = [t \in Titles |-> Unlisted]
    /\ tz = 0

\* chunkText is about to be called with a text and a budget.
InitChunk ==
    /\ NoProgram
    /\ srcText \in TextsUpTo(MaxText)
    /\ maxTokens \in 1..MaxBudget
    /\ outChunks = <<>>
    /\ oldStr = <<>>
    /\ newStr = <<>>
    /\ patch = <<>>
    /\ returned = "none"

\* The call of chunkText returns.
CallChunkText ==
    /\ returned = "none"
    /\ outChunks' = chunkText(srcText, maxTokens)
    /\ returned' = "chunkText"
    /\ UNCHANGED <<store, env, run, edits, kills, srcText, maxTokens, oldStr,
                   newStr, patch>>

NextChunk == CallChunkText

SpecChunk == InitChunk /\ [][NextChunk]_vars

\* ------------------------------------------------------------ the diff

\* The characters of the texts given to createTwoFilesPatch.
DiffChars == {"x", "y", "\n"}

\* The texts of at most n such characters.
DiffTextsUpTo(n) == UNION {[1..k -> DiffChars] : k \in 0..n}

\* The text of k lines "x", the lines whose number is in Y being "y".
LineText(k, Y) ==
    [i \in 1..(2 * k - 1) |->
        IF i % 2 = 0 THEN "\n" ELSE IF (i + 1) \div 2 \in Y THEN "y" ELSE "x"]

\* The texts of at most n lines of one character, at most two of them "y".
LineTextsUpTo(n) ==
    {LineText(k, Y) : k \in 1..n, Y \in {S \in SUBSET (1..n) : Cardinality(S) <= 2}}

\* Where "\n" stands in s.
LineBreaks(s) == [i \in 1..Len(s) |-> IF s[i] = "\n" THEN 1 ELSE 0]

Max(a, b) == IF a >= b THEN a ELSE b

\* simpleDiff(oldLines, newLines): every old line deleted, every new line
\* added.
simpleDiff(oldLines, newLines) ==
    [k \in 1..Len(oldLines) |-> [op |-> "-", line |-> oldLines[k]]]
    \o [k \in 1..Len(newLines) |-> [op |-> "+", line |-> newLines[k]]]

RECURSIVE Backtrack(_, _, _, _, _)
\* The backtracking loop of computeEdits from (i, j), its ops in the order
\* they have after ops.reverse().
Backtrack(oldLines, newLines, dp, i, j) ==
    IF i = 0 /\ j = 0 THEN <<>>
    ELSE IF i > 0 /\ j > 0 /\ oldLines[i] = newLines[j]
    THEN Append(Backtrack(oldLines, newLines, dp, i - 1, j - 1),
                [op |-> " ", line |-> oldLines[i]])
    ELSE IF j > 0 /\ (i = 0 \/ dp[i, j - 1] >= dp[i - 1, j])
    THEN Append(Backtrack(oldLines, newLines, dp, i, j - 1),
                [op |-> "+", line |-> newLines[j]])
    ELSE Append(Backtrack(oldLines, newLines, dp, i - 1, j),
                [op |-> "-", line |-> oldLines[i]])

\* computeEdits(oldLines, newLines): simpleDiff when m * n is over the
\* limit, otherwise the table of the longest common subsequence and the
\* backtracking.  (The Uint16 cells hold at most min(m, n), which the limit
\* keeps below 2^16.)
computeEdits(oldLines, newLines) ==
    LET m == Len(oldLines)
        n == Len(newLines)
        dp[i \in 0..m, j \in 0..n] ==
            IF i = 0 \/ j = 0 THEN 0
            ELSE IF oldLines[i] = newLines[j] THEN dp[i - 1, j - 1] + 1
            ELSE Max(dp[i - 1, j], dp[i, j - 1])
    IN  IF m * n > MaxCells THEN simpleDiff(oldLines, newLines)
        ELSE Backtrack(oldLines, newLines, dp, m, n)

\* The first position from `from` on (0-based) whose edit is a change, or
\* the number of edits when there is none.
NextChange(ops, from) ==
    Min({k \in from..Len(ops) : k = Len(ops) \/ ops[k + 1].op # " "})

RECURSIVE ExtendEnd(_, _, _)
\* The inner loop of buildHunks: the end (0-based, exclusive) of the changes
\* that go into one hunk with those before `end`.
ExtendEnd(ops, end, context) ==
    IF end >= Len(ops) THEN end
    ELSE IF ops[end + 1].op # " " THEN ExtendEnd(ops, end + 1, context)
    ELSE LET nextChange == NextChange(ops, end)
         IN  IF nextChange < Len(ops) /\ nextChange - end <= context * 2
             THEN ExtendEnd(ops, nextChange + 1, context)
             ELSE end

\* Hunk with start numbers that count from 0.
Hunk_ZeroBased(ops, ctxStart, ctxEnd) ==
    LET before == {k \in 1..ctxStart : TRUE}
        inside == (ctxStart + 1)..ctxEnd
    IN  [kind |-> "hunk",
         oldStart |-> Cardinality({k \in before : ops[k].op # "+"}),
         oldCount |-> Cardinality({k \in inside : ops[k].op # "+"}),
         newStart |-> Cardinality({k \in before : ops[k].op # "-"}),
         newCount |-> Cardinality({k \in inside : ops[k].op # "-"}),
         body |-> SubSeq(ops, ctxStart + 1, ctxEnd)]

\* One hunk: its "@@ -oldStart,oldCount +newStart,newCount @@" line and body.
Hunk(ops, ctxStart, ctxEnd) ==
    LET before == {k \in 1..ctxStart : TRUE}
        inside == (ctxStart + 1)..ctxEnd
    IN  [kind |-> "hunk",
         oldStart |-> 1 + Cardinality({k \in before : ops[k].op # "+"}),
         oldCount |-> Cardinality({k \in inside : ops[k].op # "+"}),
         newStart |-> 1 + Cardinality({k \in before : ops[k].op # "-"}),
         newCount |-> Cardinality({k \in inside : ops[k].op # "-"}),
         body |-> SubSeq(ops, ctxStart + 1, ctxEnd)]

RECURSIVE HunkLoop(_, _, _)
\* The outer loop of buildHunks from position i (0-based) on.
HunkLoop(ops, i, context) ==
    IF i >= Len(ops) THEN <<>>
    ELSE IF ops[i + 1].op = " " THEN HunkLoop(ops, i + 1, context)
    ELSE LET end == ExtendEnd(ops, i, context)
             ctxStart == Max(0, i - context)
             ctxEnd == IF end + context < Len(ops) THEN end + context
                       ELSE Len(ops)
         IN  <<Hunk(ops, ctxStart, ctxEnd)>> \o HunkLoop(ops, ctxEnd, context)

\* buildHunks(oldLines, newLines, ops, context)
buildHunks(ops, context) == HunkLoop(ops, 0, context)

\* diffLines(oldLines, newLines, context)
diffLines(oldLines, newLines, context) ==
    buildHunks(computeEdits(oldLines, newLines), context)

\* createTwoFilesPatch(oldName, newName, oldStr, newStr): the empty string
\* (no part at all) when there is no hunk, otherwise the two header lines
\* followed by the hunks.
createTwoFilesPatch(old, new) ==
    LET hunks == diffLines(Split(old, LineBreaks(old)),
                           Split(new, LineBreaks(new)), Context)
    IN  IF Len(hunks) = 0 THEN <<>>
        ELSE <<[kind |-> "header"]>> \o hunks

\* createTwoFilesPatch is about to be called with two texts: any two short
\* ones, or two longer ones of lines of one character.
InitDiff ==
    /\ NoProgram
    /\ srcText = <<>>
    /\ maxTokens = 0
    /\ outChunks = <<>>
    /\ \/ /\ oldStr \in DiffTextsUpTo(MaxStr)
          /\ newStr \in DiffTextsUpTo(MaxStr)
       \/ /\ oldStr \in LineTextsUpTo(MaxLines)
          /\ newStr \in LineTextsUpTo(MaxLines)
    /\ patch = <<>>
    /\ returned = "none"

\* The call of createTwoFilesPatch returns.
CallCreateTwoFilesPatch ==
    /\ returned = "none"
    /\ patch' = createTwoFilesPatch(oldStr, newStr)
    /\ returned' = "createTwoFilesPatch"
    /\ UNCHANGED <<store, env, run, edits, kills, srcText, maxTokens, outChunks,
                   oldStr, newStr>>

NextDiff == CallCreateTwoFilesPatch

SpecDiff == InitDiff /\ [][NextDiff]_vars

\* ------------------------------------------------------------ the claims

\* The titles of toIndex.
ToIndexTitles == {toIndex[k].title : k \in 1..Len(toIndex)}

\* The metadata rows of a title.
RowsOf(title) == {m \in embedding_metadata : m.tiddler_title = title}

\* The vector rows of a title, by the join e.rowid = m.id.
VectorsOf(title) ==
    {v \in entry_embeddings : v.rowid \in {m.id : m \in RowsOf(title)}}

\* Every vector row has its metadata row.
NoOrphanVector ==
    {v.rowid : v \in entry_embeddings} \subseteq {m.id : m \in embedding_metadata}

\* The chunk rows (chunk_id, chunk_text) that a complete indexing of text x
\* stores.
ChunkSetOf(x) == {<<j - 1, x[j]>> : j \in 1..Len(x)}

\* C1: a reindex with force=false that directly follows a completed reindex
\* with force=false, the wiki unchanged, selects no entry and returns
\* newly_indexed = 0, empty = 0, errors = 0 and deleted = 0.
C1_RepeatSelectsNothing ==
    (repeat /\ ~force /\ pc \in {"index", "done"}) =>
        /\ toIndex = <<>>
        /\ pc = "done"
        /\ ret.kind = "summary"
        /\ ret.newly_indexed = 0
        /\ ret.empty = 0
        /\ ret.errors = 0
        /\ ret.deleted = 0

\* The repeated run has returned, after a run that left an error status and
\* an indexed one.
C1_Witness ==
    /\ pc = "done" /\ repeat /\ ~force
    /\ \E t \in Titles : sync_status[t].status = "error"
    /\ \E t \in Titles : sync_status[t].status = "indexed"

\* C2: when a reindex pass has completed, every title that had a sync row
\* before the pass and is not in the valid-entry set has no chunk row, no
\* vector row and no sync row left, and deleted counts these titles.
C2_PurgedAfterPass ==
    pc = "done" =>
        LET gone == Range(allSynced) \ validTitles
        IN  /\ \A t \in gone : RowsOf(t) = {} /\ sync_status[t].status = "none"
            /\ NoOrphanVector
            /\ ret.deleted = Cardinality(gone)

\* A pass has purged a title and the index of another title is in place.
C2_Witness ==
    /\ pc = "done"
    /\ ret.deleted >= 1
    /\ \E t \in validTitles : RowsOf(t) # {} /\ sync_status[t].status = "indexed"

\* C3: a failure of one entry never ends the run: the process does not exit,
\* the failed entry has status=error with the failure's message, and a run
\* that is over has processed every entry of toIndex and returned a summary.
C3_FailureIsolated ==
    /\ pc # "exited"
    /\ \A t \in Titles :
         (slot[t] = "done" /\ fault[t] \in {"fetch", "embed", "store"}) =>
             /\ sync_status[t].status = "error"
             /\ sync_status[t].error_message = fault[t]
    /\ pc = "done" =>
         /\ ret.kind = "summary"
         /\ \A t \in ToIndexTitles : slot[t] = "done"

\* C4: a title with status=indexed has exactly total_chunks chunk rows.
C4_IndexedCount ==
    \A t \in Titles :
        sync_status[t].status = "indexed" =>
            Cardinality(RowsOf(t)) = sync_status[t].total_chunks

\* A run with a failed entry is over and another title is indexed with the
\* chunks of the longest text.
C4_Witness ==
    /\ pc = "done"
    /\ ret.errors >= 1
    /\ \E t \in Titles : /\ sync_status[t].status = "indexed"
                         /\ sync_status[t].total_chunks = MaxChunks
                         /\ Cardinality(RowsOf(t)) = MaxChunks

\* C5: a title with status=empty has no chunk row and no vector row.
C5_EmptyHasNoChunks ==
    AtRest =>
        \A t \in Titles :
            sync_status[t].status = "empty" =>
                RowsOf(t) = {} /\ VectorsOf(t) = {}

\* C6: with force=false, an entry with status=error whose modified has not
\* changed is not in toIndex when less than 24 hours have passed since its
\* last_indexed, and is in toIndex when more than 24 hours have passed.
\* (Read while the entry's own row is still as the run found it.)
C6_RetryAfter24h ==
    (pc \in {"index", "done"} /\ ~force) =>
        \A t \in validTitles :
            ( /\ slot[t] \in {"none", "fetch"}
              /\ sync_status[t].status = "error"
              /\ sync_status[t].last_modified = OrMissing(wiki[t].modified) )
            => /\ now - sync_status[t].last_indexed < RetryAfter
                    => t \notin ToIndexTitles
               /\ now - sync_status[t].last_indexed > RetryAfter
                    => t \in ToIndexTitles

\* C7: in the indexing phase, a step in which the fetch of a title fails
\* leaves the title's chunk rows and vector rows as they were, and a step
\* that removes a chunk row of a title is the one in which its body was
\* fetched and found non-empty.
C7_FetchFailureKeepsChunks ==
    [][\A t \in Titles :
        LET rows == RowsOf(t)
            rowsAfter == {m \in embedding_metadata' : m.tiddler_title = t}
        IN  /\ ( /\ pc = "index"
                 /\ slot[t] = "fetch"
                 /\ \/ slot'[t] = "done" /\ fault'[t] = "fetch"
                    \/ pc' = "exited" )
               => rowsAfter = rows /\ VectorsOf(t) \subseteq entry_embeddings'
            /\ (pc = "index" /\ ~(rows \subseteq rowsAfter))
               => /\ slot[t] = "fetch"
                  /\ slot'[t] = "embed"
                  /\ full'[t].text # <<>>
      ]_vars

\* The fetch of a title has failed and the title still has the chunks and
\* vectors of the longest text.
C7_Witness ==
    \E t \in Titles :
        /\ slot[t] = "done" /\ fault[t] = "fetch"
        /\ sync_status[t].status = "error"
        /\ Cardinality(RowsOf(t)) = MaxChunks
        /\ Cardinality(VectorsOf(t)) = MaxChunks

\* C8: a title with status=error has no chunk rows or the complete chunk set
\* of one indexing of some text, never a part of one.
C8_ErrorNeverPartial ==
    AtRest =>
        \A t \in Titles :
            sync_status[t].status = "error" =>
                \/ RowsOf(t) = {}
                \/ \E x \in Texts :
                     /\ ChunksOf(Db, t) = ChunkSetOf(x)
                     /\ Cardinality(RowsOf(t)) = Len(x)

\* C9: a step that removes a chunk row, a vector row or the sync row of a
\* title removes all of them: no state holds only some of the three.
C9_DeleteIsOneUnit ==
    [][\A t \in Titles :
        LET ids == IdsOf(Db, t)
            removed ==
                \/ \E m \in RowsOf(t) : m \notin embedding_metadata'
                \/ \E v \in VectorsOf(t) : v \notin entry_embeddings'
                \/ sync_status[t].status # "none" /\ sync_status'[t].status = "none"
        IN  removed =>
                /\ \A m \in embedding_metadata' : m.tiddler_title # t
                /\ \A v \in entry_embeddings' : v.rowid \notin ids
                /\ sync_status'[t].status = "none"
      ]_vars

\* The store holds, for every valid entry with a text, exactly the chunks and
\* vectors of that text under a matching status=indexed, and nothing for a
\* title that is not valid; every vector row is the vector of a chunk row.
IndexMatchesWiki ==
    /\ \A t \in validTitles :
         wiki[t].text # <<>> =>
             /\ sync_status[t].status = "indexed"
             /\ sync_status[t].last_modified = OrMissing(wiki[t].modified)
             /\ sync_status[t].total_chunks = Len(wiki[t].text)
             /\ ChunksOf(Db, t) = ChunkSetOf(wiki[t].text)
             /\ Cardinality(RowsOf(t)) = Len(wiki[t].text)
    /\ \A t \in Titles \ validTitles :
         RowsOf(t) = {} /\ sync_status[t].status = "none"
    /\ {[id |-> v.rowid, text |-> v.embedding] : v \in entry_embeddings}
         = {[id |-> m.id, text |-> m.chunk_text] : m \in embedding_metadata}

\* C10: a reindex with force=false that directly follows an interrupted one
\* on the same wiki and completes without a failure leaves the index as one
\* uninterrupted run would.  (Stated for stores that held no error or empty
\* status of a valid entry, which no run without failures would change.)
C10_ResumeRepairs ==
    ( /\ pc = "done" /\ resumed /\ ~force
      /\ ret.errors = 0
      /\ \A t \in Titles : fault[t] = "none"
      /\ \A t \in validTitles : sync_status[t].status \in {"none", "indexed"} )
    => IndexMatchesWiki

\* The place of a title in toIndex, and the number of its batch.
PosOf(t) == CHOOSE k \in 1..Len(toIndex) : toIndex[k].title = t

BatchOf(t) == (PosOf(t) - 1) \div BATCH

\* The entries whose processing has started and not ended.
InFlight == {t \in Titles : slot[t] \in {"fetch", "embed"}}

\* C11: at most 5 entries are in flight; when an entry has started, every
\* entry of an earlier batch has finished with its outcome recorded in
\* sync_status; an entry of the indexing set that has not started has been
\* neither fetched nor written.
C11_BatchesInTurn ==
    pc = "index" =>
        /\ Cardinality(InFlight) <= BATCH
        /\ \A t \in ToIndexTitles, u \in ToIndexTitles :
             (BatchOf(t) < BatchOf(u) /\ slot[u] # "none") =>
                 /\ slot[t] = "done"
                 /\ sync_status[t].status \in {"indexed", "empty", "error"}
        /\ \A u \in ToIndexTitles :
             slot[u] = "none" =>
                 /\ full[u] = NoTiddler
                 /\ sync_status[u].status = "none"
                 /\ RowsOf(u) = {}

\* The second batch is in flight after a first batch of five with a failure.
C11_Witness ==
    /\ pc = "index"
    /\ batchStart = 1 + BATCH
    /\ InFlight # {}
    /\ Cardinality({t \in ToIndexTitles : slot[t] = "done"}) = BATCH
    /\ \E t \in ToIndexTitles : sync_status[t].status = "error"

\* C12: in the indexing phase a step that changes a chunk row, a vector row
\* or the sync row of a title is a step of that title's own processing, and
\* it changes rows of no other title.
C12_WritesOwnTitle ==
    [][pc = "index" =>
        LET Moved(t) == /\ slot[t] \in {"fetch", "embed"}
                        /\ slot'[t] \in {"embed", "done"}
                        /\ slot'[t] # slot[t]
            RowsAfter(t) == {m \in embedding_metadata' : m.tiddler_title = t}
            Touched(t) == \/ RowsAfter(t) # RowsOf(t)
                          \/ sync_status'[t] # sync_status[t]
            changedVecs == (entry_embeddings \ entry_embeddings')
                               \cup (entry_embeddings' \ entry_embeddings)
        IN  /\ \A t \in Titles : Touched(t) => Moved(t)
            /\ Cardinality({t \in Titles : Touched(t)}) <= 1
            /\ \A v \in changedVecs :
                 \E t \in Titles :
                     /\ Moved(t)
                     /\ v.rowid \in {m.id : m \in RowsOf(t) \cup RowsAfter(t)}
      ]_vars

\* Two entries of one batch are under way: one has stored its chunks while
\* the other is between the delete of its old rows and its embed call.
C12_Witness ==
    /\ pc = "index"
    /\ \E t \in Titles, u \in Titles :
         /\ t # u
         /\ slot[t] = "embed"
         /\ slot[u] = "done"
         /\ sync_status[u].status = "indexed"
         /\ RowsOf(u) # {}

\* C13: a call with statusOnly=true changes no chunk, vector or sync row,
\* returns the stats of the store, and goes through no network stage.
C13_StatusMutatesNothing ==
    [][ret'.kind = "status" =>
        /\ entry_embeddings' = entry_embeddings
        /\ embedding_metadata' = embedding_metadata
        /\ sync_status' = sync_status
        /\ ret'.total_embeddings = Cardinality(entry_embeddings)
        /\ ret'.total_indexed = Cardinality({t \in Titles : sync_status[t].status # "none"})
        /\ pc' = "idle"
      ]_vars

\* C13 as amended: a call with statusOnly=true adds and removes no row and
\* changes none but the sync rows with an empty last_modified, which the
\* opening of the store sets to the sentinel; it returns the stats of the
\* store and goes through no network stage.
C13_StatusOnlyMigrates ==
    [][ret'.kind = "status" =>
        /\ entry_embeddings' = entry_embeddings
        /\ embedding_metadata' = embedding_metadata
        /\ \A t \in Titles :
             \/ sync_status'[t] = sync_status[t]
             \/ /\ sync_status[t].status # "none"
                /\ sync_status[t].last_modified = 0
                /\ sync_status'[t] =
                     [sync_status[t] EXCEPT !.last_modified = MISSING_TIMESTAMP]
        /\ ret'.total_embeddings = Cardinality(entry_embeddings)
        /\ ret'.total_indexed = Cardinality({t \in Titles : sync_status[t].status # "none"})
        /\ pc' = "idle"
      ]_vars

\* A status call has returned the stats of a store that holds chunks, with a
\* row at the sentinel.
C13_Witness ==
    /\ ret.kind = "status"
    /\ pc = "idle"
    /\ ret.total_embeddings >= 1
    /\ \E t \in Titles : /\ sync_status[t].status = "indexed"
                         /\ sync_status[t].last_modified = MISSING_TIMESTAMP

\* The stages of reindex before the list of the wiki is there.
BeforeList == {"srv", "a", "health", "list"}

\* C14: when reindex fails at the health check or at the fetch of the list,
\* the store is as the call found it; the list is fetched only after the
\* health check has passed, which it never does with a backend that does
\* not answer; before the list is there no step but the one that receives
\* it writes to the store.
C14_FatalBeforeAnyWrite ==
    [][/\ (pc \in BeforeList /\ pc' = "failed") =>
            /\ Db' = atOpen
            /\ ret'.kind = "error"
       /\ pc' = "list" => (pc = "health" /\ "health" \notin silent)
       /\ (pc \in BeforeList /\ Db' # Db) => (pc = "list" /\ pc' \in {"index", "done"})
      ]_vars

\* C14 as amended: the same, with the store as the call found it but for the
\* empty last_modified values that the opening of the store set to the
\* sentinel.
C14_FatalAfterOpenOnly ==
    [][/\ (pc \in BeforeList /\ pc' = "failed") =>
            /\ Db' = openDb(atOpen)
            /\ ret'.kind = "error"
       /\ pc' = "list" => (pc = "health" /\ "health" \notin silent)
       /\ (pc \in BeforeList /\ Db' # Db) => (pc = "list" /\ pc' \in {"index", "done"})
      ]_vars

\* A call of reindex has failed on a store that holds the index of a title
\* which the wiki no longer lists.
C14_Witness ==
    /\ pc = "failed"
    /\ ret.kind = "error"
    /\ \E t \in Titles : /\ ~wiki[t].listed
                         /\ sync_status[t].status = "indexed"
                         /\ RowsOf(t) # {}

\* C15: when phase 2 has run, the indexing set holds valid entries only; with
\* force it holds all of them; without force a valid entry is in it exactly
\* when it has no sync row, or its stored last_modified differs from its
\* modified (a missing one read as the sentinel), or its status is error and
\* more than 24 hours have passed since last_indexed.
C15_SelectionRule ==
    ( \/ pc = "index" /\ \A t \in Titles : slot[t] \in {"none", "fetch"}
      \/ pc = "done" /\ toIndex = <<>> )
    => /\ ToIndexTitles \subseteq validTitles
       /\ \A t \in validTitles :
            t \in ToIndexTitles <=>
                \/ force
                \/ sync_status[t].status = "none"
                \/ sync_status[t].last_modified # OrMissing(wiki[t].modified)
                \/ /\ sync_status[t].status = "error"
                   /\ now - sync_status[t].last_indexed > RetryAfter

\* The listed entries that phase 2 finds indexed and unchanged.
Unchanged == {t \in Titles :
                /\ wiki[t].listed
                /\ IsValidTitle(t)
                /\ sync_status[t].status = "indexed"
                /\ sync_status[t].last_modified = OrMissing(wiki[t].modified)}

\* C16: in a reindex run with force=false an entry whose sync row says
\* indexed and whose stored last_modified equals its listed modified is not
\* put in the indexing set, and for an entry outside the indexing set no body
\* is fetched, no embed call is made, and its chunk rows, vector rows and
\* sync row stay as they are through the whole run.
C16_UnchangedNotReembedded ==
    [][/\ (pc = "list" /\ pc' \in {"index", "done"} /\ ~force)
            => \A t \in Unchanged :
                 /\ t \notin ToIndexTitles'
                 /\ slot'[t] = "none"
                 /\ RowsOf(t)' = RowsOf(t)
                 /\ VectorsOf(t)' = VectorsOf(t)
                 /\ sync_status'[t] = sync_status[t]
       /\ (pc = "index" /\ ~force)
            => \A t \in validTitles \ ToIndexTitles :
                 /\ slot'[t] = "none"
                 /\ full'[t] = full[t]
                 /\ RowsOf(t)' = RowsOf(t)
                 /\ VectorsOf(t)' = VectorsOf(t)
                 /\ sync_status'[t] = sync_status[t]]_vars

\* A run without force has ended that embedded one entry and left another,
\* indexed with chunks, out of the indexing set.
C16_Witness ==
    /\ pc = "done"
    /\ ~force
    /\ result.indexed > 0
    /\ \E t \in validTitles \ ToIndexTitles :
         /\ sync_status[t].status = "indexed"
         /\ RowsOf(t) # {}

\* The entries of the indexing set whose sync row has the given status.
WithStatus(st) == {t \in ToIndexTitles : sync_status[t].status = st}

C18_OnePerTitleNearest ==
    pc = "q_done" =>
        /\ \A i, j \in DOMAIN ret.rows :
             ret.rows[i].tiddler_title = ret.rows[j].tiddler_title => i = j
        /\ \A i \in DOMAIN ret.rows :
             /\ ret.rows[i] \in Range(hits)
             /\ \A h \in Range(hits) :
                  h.tiddler_title = ret.rows[i].tiddler_title
                     => ret.rows[i].distance <= h.distance
        /\ \A h \in Range(hits) :
             \E i \in DOMAIN ret.rows :
                ret.rows[i].tiddler_title = h.tiddler_title

\* A search has returned where the k-nearest search gave two rows of one
\* title at different distances, the farther one first, and a row of
\* another title.
C18_Witness ==
    /\ pc = "q_done"
    /\ \E i, j \in DOMAIN hits :
         /\ i < j
         /\ hits[i].tiddler_title = hits[j].tiddler_title
         /\ hits[i].distance > hits[j].distance
    /\ \E i, j \in DOMAIN hits : hits[i].tiddler_title # hits[j].tiddler_title
    /\ Len(ret.rows) = 2

\* The positions of a call of search that has not ended.
InSearch == {"q_srv", "q_a", "q_health", "q_embed"}

C21_WithinBudgetOneChunk ==
    (returned = "chunkText" /\ Len(encode(srcText)) <= maxTokens)
        => outChunks = <<srcText>>

\* chunkText has returned for a text within the budget that begins with a
\* space and holds a paragraph break.
C21_Witness ==
    /\ returned = "chunkText"
    /\ Len(encode(srcText)) <= maxTokens
    /\ Len(srcText) >= 4
    /\ srcText[1] = " "
    /\ \E i \in 1..(Len(srcText) - 1) : srcText[i] = "\n" /\ srcText[i + 1] = "\n"
    /\ outChunks = <<srcText>>

\* The letters of a text, in their order.
LettersOf(s) ==
    LET IsLetter(c) == c \in Letters
    IN  SelectSeq(s, IsLetter)

\* C22: whatever the text and the budget, no chunk chunkText returns is the
\* empty string, and the chunks follow the order of the text: their letters,
\* read chunk after chunk, are the letters of the text in the text's order.
C22_NoEmptyChunkInOrder ==
    returned = "chunkText"
        => /\ \A i \in DOMAIN outChunks : outChunks[i] # <<>>
           /\ LettersOf(Concat(outChunks)) = LettersOf(srcText)

\* The characters a text is split at or trimmed of.
Separators == Whitespace \cup Terminators

RECURSIVE Rejoins(_, _)
\* The chunks cs, in order, with strings of separators before, between and
\* after them, make up the text s.
Rejoins(cs, s) ==
    IF cs = <<>> THEN \A i \in 1..Len(s) : s[i] \in Separators
    ELSE \E k \in 0..Len(s) :
            /\ \A i \in 1..k : s[i] \in Separators
            /\ k + Len(Head(cs)) <= Len(s)
            /\ SubSeq(s, k + 1, k + Len(Head(cs))) = Head(cs)
            /\ Rejoins(Tail(cs), SubSeq(s, k + Len(Head(cs)) + 1, Len(s)))

\* C23: the chunks chunkText returns, rejoined in order with the separators
\* the text was split at, give the text back: every chunk is a stretch of the
\* text, the stretches follow one another, and what lies between them is
\* separators only.
C23_ChunksRejoinToText ==
    returned = "chunkText" => Rejoins(outChunks, srcText)

\* A text that is one sentence: neither /\n\n+/ nor /[.!?]+\s+/ cuts it.
OneSentence(c) ==
    /\ Len(Split(c, ParagraphBreaks(c))) = 1
    /\ Len(Split(c, SentenceBreaks(c))) = 1

\* C24: for a text over the budget, every chunk chunkText returns has at
\* most maxTokens tokens or is a single sentence that alone is over the
\* budget, wherever in the text the paragraphs over the budget stand.
C24_SoftCeiling ==
    (returned = "chunkText" /\ Len(encode(srcText)) > maxTokens)
        => \A i \in DOMAIN outChunks :
              \/ Len(encode(outChunks[i])) <= maxTokens
              \/ OneSentence(outChunks[i])

\* The titles the filter is to keep: those that neither begin with "/" nor
\* end in ".tid".
KeptTitle(title) ==
    /\ title[1] # "/"
    /\ title[Len(title)] # ".tid"

\* C25: once the list is filtered, the valid titles are the listed titles
\* that neither begin with a path separator nor end in .tid, a title that
\* holds .tid elsewhere being among them; and when the run has returned its
\* summary each of them has its sync row.
C25_FilterBySuffix ==
    /\ pc \in {"index", "done"}
         => validTitles = {t \in Titles : wiki[t].listed /\ KeptTitle(t)}
    /\ (pc = "done" /\ ret.kind = "summary")
         => \A t \in Titles :
               (wiki[t].listed /\ KeptTitle(t)) => sync_status[t].status # "none"

\* A step in which the store is opened: by reindex, or by search once the
\* health check has passed.
Opens ==
    \/ AtRest /\ pc' \in {"srv", "health"}
    \/ AtRest /\ ret'.kind = "status"
    \/ pc = "q_health" /\ pc' = "q_embed"

IndexedNow == {t \in ToIndexTitles :
                 /\ slot[t] = "done"
                 /\ fault[t] = "none"
                 /\ full[t].text # <<>>}

\* C27: once an entry with n chunks is indexed successfully, its title has n
\* chunk rows, with the chunk indices 0..n-1 each once and row ids that rise
\* with the index; the row of index j holds the text of chunk j, and its
\* vector row, the only one under its row id, holds the vector of chunk j;
\* the sync row says indexed with total_chunks = n.
C27_ChunkRowsInOrder ==
    pc \in {"index", "done"} =>
        \A t \in IndexedNow :
            LET x == BodyChunks(full[t].text)
                rows == RowsOf(t)
            IN  /\ Cardinality(rows) = Len(x)
                /\ {m.chunk_id : m \in rows} = 0..(Len(x) - 1)
                /\ \A m \in rows :
                     /\ m.chunk_text = x[m.chunk_id + 1]
                     /\ {v \in entry_embeddings : v.rowid = m.id}
                           = {[rowid |-> m.id, embedding |-> x[m.chunk_id + 1]]}
                /\ \A m1, m2 \in rows : m1.chunk_id < m2.chunk_id => m1.id < m2.id
                /\ sync_status[t].status = "indexed"
                /\ sync_status[t].total_chunks = Len(x)

\* A run with force has indexed again an entry of two chunks that had rows
\* in the store, while another entry of the run failed.
C27_Witness ==
    /\ pc = "done"
    /\ force
    /\ \E t \in IndexedNow :
         /\ Len(full[t].text) = 2
         /\ atOpen = NoDb
         /\ \E m \in RowsOf(t) : m.id > 2
    /\ \E t \in ToIndexTitles : fault[t] # "none"

\* C28: createTwoFilesPatch returns the empty string exactly when the two
\* texts are the same, and for differing texts the header followed by at
\* least one hunk.
C28_EmptyIffIdentical ==
    returned = "createTwoFilesPatch" =>
        /\ patch = <<>> <=> oldStr = newStr
        /\ oldStr # newStr =>
             /\ Len(patch) >= 2
             /\ patch[1].kind = "header"
             /\ \A k \in 2..Len(patch) : patch[k].kind = "hunk"

\* C29: vector rows and chunk-metadata rows are one-to-one in every state of
\* the store that runs without interruption reach, runs with failures while
\* storing chunks and runs that purge titles included: every vector row has
\* exactly one metadata row of its row id and every metadata row exactly one
\* vector row.
C29_VectorsPairWithMetadata ==
    /\ \A v \in entry_embeddings :
         /\ Cardinality({m \in embedding_metadata : m.id = v.rowid}) = 1
         /\ Cardinality({u \in entry_embeddings : u.rowid = v.rowid}) = 1
    /\ \A m \in embedding_metadata :
         /\ Cardinality({v \in entry_embeddings : v.rowid = m.id}) = 1
         /\ Cardinality({x \in embedding_metadata : x.id = m.id}) = 1

\* A run that purged a title has returned its summary, and a title whose
\* storing failed in it keeps the rows written before the failure.
C29_Witness ==
    /\ pc = "done"
    /\ ret.kind = "summary"
    /\ ret.deleted > 0
    /\ \E t \in Titles : fault[t] = "store" /\ RowsOf(t) # {}
    /\ C29_VectorsPairWithMetadata

\* The titles that have a sync row.
TitlesWithSyncRow == {t \in Titles : sync_status[t].status # "none"}

\* C30: when a reindex run (statusOnly=false) has returned its summary, the
\* titles that have a sync row are the valid titles of the list the run
\* fetched: each valid title has its row, of status indexed, empty or error,
\* and no other title has one.
C30_SyncRowsAreValidTitles ==
    (pc = "done" /\ ret.kind = "summary") =>
        /\ TitlesWithSyncRow = validTitles
        /\ \A t \in validTitles :
             sync_status[t].status \in {"indexed", "empty", "error"}

\* A run that purged a title and whose one indexing attempt failed has
\* returned its summary: the valid title has its row, the purged one none.
C30_Witness ==
    /\ pc = "done"
    /\ ret.kind = "summary"
    /\ ret.deleted > 0
    /\ ret.errors > 0
    /\ \E t \in validTitles : sync_status[t].status = "error"
    /\ \E k \in 1..Len(allSynced) :
         /\ allSynced[k] \notin validTitles
         /\ sync_status[allSynced[k]].status = "none"
    /\ TitlesWithSyncRow = validTitles

\* The embed call of a title is pending.
EmbedPending(t) == pc = "index" /\ slot[t] = "embed"

\* The embed call of a title has failed in the running call.
EmbedFailed(t) == pc \in {"index", "done"} /\ slot[t] = "done" /\ fault[t] = "embed"

\* C31: the step that starts the embed call of an entry removes the chunk
\* rows, the vector rows and the sync row the entry had; while the call is
\* pending the title has neither chunks nor a sync row; and when the call
\* fails the entry gets status=error with total_chunks=0 and still has no
\* chunk or vector row, to the end of the run.
C31_EmbedFailureLeavesNothing ==
    /\ [](\A t \in Titles :
            /\ EmbedPending(t) =>
                 /\ RowsOf(t) = {}
                 /\ sync_status[t].status = "none"
            /\ EmbedFailed(t) =>
                 /\ RowsOf(t) = {}
                 /\ sync_status[t].status = "error"
                 /\ sync_status[t].total_chunks = 0)
    /\ [][\A t \in Titles :
            /\ (slot[t] = "fetch" /\ slot'[t] = "embed") =>
                 \A v \in entry_embeddings' : v.rowid \notin IdsOf(Db, t)
            /\ (EmbedPending(t) /\ fault'[t] = "embed") =>
                 entry_embeddings' = entry_embeddings
       ]_vars

\* Of two entries that an earlier run indexed, the embed call of one has
\* failed while that of the other is pending: the first has status=error and
\* total_chunks=0, the second no sync row, and the store holds no chunk and
\* no vector.
C31_Witness ==
    /\ pc = "index"
    /\ entry_embeddings = {}
    /\ embedding_metadata = {}
    /\ \E u \in EditTitles : EmbedPending(u) /\ sync_status[u].status = "none"
    /\ \E t \in EditTitles :
         /\ EmbedFailed(t)
         /\ sync_status[t].status = "error"
         /\ sync_status[t].total_chunks = 0
         /\ RowsOf(t) = {}

\* oldStr.split("\n") and newStr.split("\n") of the call.
OldLines == Split(oldStr, LineBreaks(oldStr))
NewLines == Split(newStr, LineBreaks(newStr))

\* The lines of a list of edits, those of the given op left out.
ReadOver(ops, skip) ==
    LET Kept(e) == e.op # skip
        kept == SelectSeq(ops, Kept)
    IN  [k \in 1..Len(kept) |-> kept[k].line]

\* The two texts are within the limit of the table of computeEdits.
WithinLimit == Len(OldLines) * Len(NewLines) <= MaxCells

\* C32: for two texts within the limit of the table, the edit script of
\* computeEdits read over its ' ' and '-' lines is the old lines in order and
\* read over its ' ' and '+' lines the new lines in order; in each hunk the
\* old and new counts are the numbers of such lines of its body, the start
\* numbers are the 1-based positions of the hunk's first line in old and in
\* new (the body's lines are the lines that stand there), and a hunk begins
\* after the lines of the hunk before it.
C32_PatchCorrect ==
    (returned = "createTwoFilesPatch" /\ WithinLimit) =>
        /\ ReadOver(computeEdits(OldLines, NewLines), "+") = OldLines
        /\ ReadOver(computeEdits(OldLines, NewLines), "-") = NewLines
        /\ \A k \in 2..Len(patch) :
             LET h == patch[k]
                 olds == ReadOver(h.body, "+")
                 news == ReadOver(h.body, "-")
             IN  /\ h.oldCount = Len(olds)
                 /\ h.newCount = Len(news)
                 /\ h.oldStart >= 1 /\ h.newStart >= 1
                 /\ olds = SubSeq(OldLines, h.oldStart, h.oldStart + Len(olds) - 1)
                 /\ news = SubSeq(NewLines, h.newStart, h.newStart + Len(news) - 1)
        /\ \A k \in 2..(Len(patch) - 1) :
             /\ patch[k].oldStart + patch[k].oldCount <= patch[k + 1].oldStart
             /\ patch[k].newStart + patch[k].newCount <= patch[k + 1].newStart

\* A patch of two hunks has been returned for two texts within the limit, the
\* second hunk adding lines and removing lines.
C32_Witness ==
    /\ returned = "createTwoFilesPatch"
    /\ WithinLimit
    /\ Len(patch) = 3
    /\ patch[3].oldStart > patch[2].oldStart + patch[2].oldCount
    /\ patch[3].oldCount # patch[3].newCount
    /\ C32_PatchCorrect

====
